---- MODULE Spec2Model ----
(***************************************************************************)
(* The high-level parser of Circe (core/cce-ast/src/parser.rs): a          *)
(* recursive-descent parser with a one-slot lookahead cache, reading the   *)
(* tokens of the high-level lexer through the lexer's own one-slot cache.  *)
(*                                                                         *)
(* The program state is the Parser struct: its lexer (the tokens not yet   *)
(* taken from the stream, and the lexer's peeked token) and its peeked     *)
(* node.  Parser::next and Parser::peek are the two operations; the        *)
(* private parse_* functions are operators that map a lexer state to a     *)
(* result and the lexer state the call leaves behind.                      *)
(***************************************************************************)
EXTENDS Naturals, Sequences, FiniteSets, TLC

VARIABLES
  input,    \* the token sequence the lexer delivers for the source text
  parser,   \* Parser { lexer, peeked }
  out,      \* what the calls of next() returned so far, in order
  last,     \* the last call: its operation, its result, the stream offsets
            \* before and after it, the offsets at which body items began
  only,     \* a second parser of the same input on which next() alone is
            \* called, kept one call ahead: the parser, and what it returned
  text,     \* the characters of the source text a lexer reads
  lexer,    \* the lexer on that text, Lexer { stream, peeked }: the
            \* low-level lexer, or the high-level lexer in the runs of its
            \* raw capture
  tokens,   \* what the calls of that lexer's next() returned so far
  lexLast,  \* the last call of that lexer: its operation, its result, the
            \* state of the cache and the stream around it
  lexOnly   \* a second low-level lexer of the same text on which next()
            \* alone is called, kept one call ahead

\* the state of the parser and the state of a lexer over characters
astVars == <<input, parser, out, last, only>>
lowVars == <<text, lexer, tokens, lexLast, lexOnly>>

vars == <<astVars, lowVars>>

-----------------------------------------------------------------------------
(* Bounds of the model.                                                    *)

\* the longest free tail of tokens appended to an input's opening
MaxTail == 2

\* how many results of next() a run collects
MaxOut == 3

\* the longest source text of the low-level lexer, in characters
MaxText == 4

\* how many results of the low-level next() a run collects
MaxTokens == 3

\* how many calls the loop over a parser may make: more than any input has
\* tokens, by two at least
MaxCalls == 16

-----------------------------------------------------------------------------
(* Tokens (enum Token of the high-level lexer, as the parser matches it).  *)

Tok(k, v) == [k |-> k, v |-> v]

Identifier(s) == Tok("Identifier", s)
Keyword(s) == Tok("Keyword", s)
Literal(s) == Tok("Literal", s)
Punctuation(c) == Tok("Punctuation", c)
FinalSequence(s) == Tok("FinalSequence", s)
Percent == Tok("Percent", "")
Ampersand == Tok("Ampersand", "")
Question == Tok("Question", "")
Dot == Tok("Dot", "")
Newline == Tok("Newline", "")

\* Option<Token>::None, Option<ParseNode>::None
None == Tok("None", "")

Dash == Punctuation("-")
Pipe == Punctuation("|")
Comma == Punctuation(",")

\* The tokens inputs are made of: one identifier, the two reserved words,
\* one literal, the two punctuation marks the grammar names and one it does
\* not, and every token without text.  The texts are pairwise different, so
\* a component shows which token it was built from.
Tokens ==
  { Identifier("a"), Keyword("howto"), Keyword("whatis"), Literal("x"),
    Dash, Pipe, Comma, Percent, Ampersand, Question, Dot, Newline,
    FinalSequence("f") }

-----------------------------------------------------------------------------
(* The high-level lexer, seen from the parser: a token stream with a       *)
(* one-slot cache.  peek() fills the cache and does not consume; next()    *)
(* empties the cache or takes the next token of the stream.                *)
(*                                                                         *)
(* Throughout, a step of a function is an operator over the value of the   *)
(* step before it, so that every intermediate value is named once.         *)

Lexer(rest, peeked) == [rest |-> rest, peeked |-> peeked]

\* a call's value and the lexer it leaves
LexRet(val, l) == [val |-> val, lexer |-> l]

LexerNext(l) ==
  IF l.peeked # None
    THEN LexRet(l.peeked, Lexer(l.rest, None))
    ELSE IF l.rest = <<>>
           THEN LexRet(None, l)
           ELSE LexRet(Head(l.rest), Lexer(Tail(l.rest), None))

\* self.peeked = self.next()?; Ok(self.peeked.clone())
LexerFill(r) == LexRet(r.val, Lexer(r.lexer.rest, r.val))

LexerPeek(l) ==
  IF l.peeked = None THEN LexerFill(LexerNext(l)) ELSE LexRet(l.peeked, l)

\* self.lexer.next()?; tok = self.lexer.peek()?
LexerAdvance(l) == LexerPeek(LexerNext(l).lexer)

\* self.lexer.next()?
LexerSkip(l) == LexerNext(l).lexer

\* how many tokens are still to be delivered by next(): the cached one counts
Pending(l) == Len(l.rest) + (IF l.peeked = None THEN 0 ELSE 1)

-----------------------------------------------------------------------------
(* The syntax tree (parser.rs, lines 31-68).                               *)

Component(k, v) == [kind |-> k, text |-> v]

Command(components, modifiers) ==
  [components |-> components, modifiers |-> modifiers]

WhatIsCommandCommand(cmd) == [type |-> "Command", command |-> cmd, text |-> ""]
WhatIsCommandFinal(seq) ==
  [type |-> "Final", command |-> Command(<<>>, <<>>), text |-> seq]

NodeCommand(cmd) ==
  [type |-> "Command", command |-> cmd, signature |-> <<>>, body |-> <<>>]
NodeHowTo(signature, body) ==
  [type |-> "HowToStatement", command |-> Command(<<>>, <<>>),
   signature |-> signature, body |-> body]
NodeWhatIs(signature, body) ==
  [type |-> "WhatIsStatement", command |-> Command(<<>>, <<>>),
   signature |-> signature, body |-> body]
NoNode ==
  [type |-> "None", command |-> Command(<<>>, <<>>),
   signature |-> <<>>, body |-> <<>>]

-----------------------------------------------------------------------------
(* Results: Result<T, ParserError> together with the lexer the call left   *)
(* and, for a statement, the stream offsets at which its body items began. *)

Ok(val, l) ==
  [ok |-> TRUE, err |-> "", msg |-> "", val |-> val, lexer |-> l, marks |-> <<>>]

OkMarks(val, l, marks) ==
  [ok |-> TRUE, err |-> "", msg |-> "", val |-> val, lexer |-> l, marks |-> marks]

Err(kind, msg, l) ==
  [ok |-> FALSE, err |-> kind, msg |-> msg, val |-> NoNode, lexer |-> l,
   marks |-> <<>>]

SyntaxError(msg, l) == Err("SyntaxError", msg, l)
InternalError(msg, l) == Err("InternalError", msg, l)

-----------------------------------------------------------------------------
(* parse_vec_command_component (parser.rs, lines 88-148).                  *)

\* CommandComponent::Keyword for Identifier and Keyword tokens, ::Literal
\* for Literal tokens (lines 95-103)
WordComponent(tok) ==
  IF tok.k = "Literal"
    THEN Component("Literal", tok.v)
    ELSE Component("Keyword", tok.v)

\* the component a sigil makes of the identifier after it (lines 109, 119)
SigilComponent(sigil, ident) ==
  IF sigil.k = "Percent"
    THEN Component("Slot", ident.v)
    ELSE Component("BackRef", ident.v)

\* faulty variant: a sigil takes any word after it
IsSigilOperandAnyWord(tok) == tok.k \in {"Identifier", "Keyword", "Literal"}

\* what may follow a sigil (lines 108, 118)
IsSigilOperand(tok) == tok.k = "Identifier"

\* faulty variant: a FinalSequence token ends the component sequence as
\* punctuation does
VecFinalStops(l, components) == Ok(components, l)

\* what a FinalSequence token does to a component sequence (lines 127-131)
VecFinal(l, components) ==
  SyntaxError("Final sequences are not allowed here", l)

\* faulty variant: every token ends the component sequence, none is consumed
VecLoopStops(p, components) == Ok(components, p.lexer)

RECURSIVE VecLoop(_, _)
RECURSIVE VecSigil(_, _, _)

\* The while loop at its head (line 93): p.val is the token just peeked,
\* p.lexer the lexer after that peek.
VecLoop(p, components) ==
  CASE p.val = None -> Ok(components, p.lexer)
    [] p.val.k \in {"Identifier", "Keyword", "Literal"} ->
         VecLoop(LexerAdvance(p.lexer),
                 Append(components, WordComponent(p.val)))
    [] p.val.k \in {"Percent", "Ampersand"} ->
         VecSigil(p.val, LexerAdvance(p.lexer), components)
    [] p.val.k = "FinalSequence" -> VecFinal(p.lexer, components)
    [] p.val.k \in {"Punctuation", "Newline", "Question", "Dot"} ->
         Ok(components, p.lexer)

\* faulty variant: the token that is no identifier is consumed
VecSigilEats(sigil, q, components) ==
  IF IsSigilOperand(q.val)
    THEN VecLoop(LexerAdvance(q.lexer),
                 Append(components, SigilComponent(sigil, q.val)))
    ELSE SyntaxError("Expected identifier", LexerSkip(q.lexer))

\* lines 104-123: the sigil is consumed, q.val is the token after it
VecSigil(sigil, q, components) ==
  IF IsSigilOperand(q.val)
    THEN VecLoop(LexerAdvance(q.lexer),
                 Append(components, SigilComponent(sigil, q.val)))
    ELSE SyntaxError("Expected identifier", q.lexer)

ParseVecCommandComponent(l) == VecLoop(LexerPeek(l), <<>>)

-----------------------------------------------------------------------------
(* parse_command (parser.rs, lines 150-189).                               *)

\* faulty variant: the '.' ends the command and is left in the stream
CommandDotKept(l, components, modifiers) ==
  Ok(Command(components, modifiers), l)

\* Token::Dot after a command: consumed, and the command ends (lines 171-174)
CommandDot(l, components, modifiers) ==
  Ok(Command(components, modifiers), LexerSkip(l))

\* faulty variant: the Newline is consumed and ends the command
CommandNewlineEnds(l) == LexRet(None, LexerSkip(l))

\* Token::Newline after a command: consumed, and the loop goes on with the
\* token after it (lines 175-178)
CommandNewline(l) == LexerAdvance(l)

\* faulty variant: the new modifier goes to the front of the list
PushModifierFront(modifiers, m) == <<m>> \o modifiers

\* line 161: the new modifier goes to the end of the list
PushModifier(modifiers, m) == Append(modifiers, m)

RECURSIVE CommandLoop(_, _, _)
RECURSIVE CommandModifier(_, _, _)

\* The while loop at its head (line 156): p.val is the token just peeked.
CommandLoop(p, components, modifiers) ==
  CASE p.val = Pipe ->
         CommandModifier(ParseVecCommandComponent(LexerSkip(p.lexer)),
                         components, modifiers)
    [] p.val = Dash -> Ok(Command(components, modifiers), p.lexer)
    [] p.val.k = "Punctuation" /\ p.val \notin {Pipe, Dash} ->
         SyntaxError("Expected '|'", p.lexer)
    [] p.val = Dot -> CommandDot(p.lexer, components, modifiers)
    [] p.val = Newline ->
         CommandLoop(CommandNewline(p.lexer), components, modifiers)
    [] OTHER -> Ok(Command(components, modifiers), p.lexer)

\* lines 161-162: m is what parsing the modifier returned
CommandModifier(m, components, modifiers) ==
  IF ~m.ok
    THEN m
    ELSE CommandLoop(LexerPeek(m.lexer), components,
                     PushModifier(modifiers, m.val))

\* lines 151-154: c is what parsing the head returned
CommandHead(c) ==
  IF ~c.ok THEN c ELSE CommandLoop(LexerPeek(c.lexer), c.val, <<>>)

ParseCommand(l) == CommandHead(ParseVecCommandComponent(l))

-----------------------------------------------------------------------------
(* parse_whatis_command (parser.rs, lines 191-202).                        *)

\* faulty variant: a literal is taken for a final sequence too
IsFinalOrLiteral(tok) == tok.k \in {"FinalSequence", "Literal"}

\* the match of line 195
IsFinal(tok) == tok.k = "FinalSequence"

\* line 200
WrapCommand(c) ==
  IF ~c.ok THEN c ELSE Ok(WhatIsCommandCommand(c.val), c.lexer)

WhatIsItem(p) ==
  IF IsFinal(p.val)
    THEN Ok(WhatIsCommandFinal(p.val.v), LexerSkip(p.lexer))
    ELSE WrapCommand(ParseCommand(p.lexer))

ParseWhatIsCommand(l) == WhatIsItem(LexerPeek(l))

-----------------------------------------------------------------------------
(* The opening of both statements: the signature, '?', a newline and the   *)
(* first '-' (parser.rs, lines 205-234 and 260-289).  The value is the     *)
(* signature; the lexer is the one after the '-'.                          *)

\* lines 221-234: d.val is the token after the newline
OpeningDash(signature, d) ==
  IF d.val # Dash
    THEN SyntaxError("Expected '-'", d.lexer)
    ELSE Ok(signature, LexerSkip(d.lexer))

\* faulty variant: the newline after the '?' may be missing
OpeningNewlineOptional(signature, n) ==
  IF n.val # Newline
    THEN OpeningDash(signature, n)
    ELSE OpeningDash(signature, LexerAdvance(n.lexer))

\* lines 213-217: n.val is the token after the '?'
OpeningNewline(signature, n) ==
  IF n.val # Newline
    THEN SyntaxError("Expected newline", n.lexer)
    ELSE OpeningDash(signature, LexerAdvance(n.lexer))

\* lines 207-211: q.val is the token after the signature
OpeningQuestion(signature, q) ==
  IF q.val # Question
    THEN SyntaxError("Expected '?'", q.lexer)
    ELSE OpeningNewline(signature, LexerAdvance(q.lexer))

\* line 205: s is what parsing the signature returned
OpeningSignature(s) ==
  IF ~s.ok THEN s ELSE OpeningQuestion(s.val, LexerPeek(s.lexer))

StatementOpening(l) == OpeningSignature(ParseVecCommandComponent(l))

-----------------------------------------------------------------------------
(* parse_howto_statement (parser.rs, lines 204-257).                       *)

RECURSIVE HowToLoop(_, _, _, _)
RECURSIVE HowToItem(_, _, _, _, _)
RECURSIVE HowToAfter(_, _, _, _)

\* The loop of lines 236-254 at its head.  marks collects, for each body
\* item, how many tokens were still pending when the item began.
HowToLoop(l, signature, body, marks) ==
  HowToItem(ParseCommand(l), Pending(l), signature, body, marks)

\* lines 237-240: cmd is what parsing the item returned
HowToItem(cmd, mark, signature, body, marks) ==
  IF ~cmd.ok
    THEN cmd
    ELSE HowToAfter(LexerPeek(cmd.lexer), signature,
                    Append(body, cmd.val), Append(marks, mark))

\* faulty variant: the body must be closed by '.'
HowToAfterStrict(p, signature, body, marks) ==
  CASE p.val = Dash -> HowToLoop(LexerSkip(p.lexer), signature, body, marks)
    [] p.val = Dot ->
         OkMarks(NodeHowTo(signature, body), LexerSkip(p.lexer), marks)
    [] OTHER -> SyntaxError("Expected '-' or '.'", p.lexer)

\* lines 241-253: p.val is the token after the item
HowToAfter(p, signature, body, marks) ==
  CASE p.val = Dash -> HowToLoop(LexerSkip(p.lexer), signature, body, marks)
    [] p.val = Dot ->
         OkMarks(NodeHowTo(signature, body), LexerSkip(p.lexer), marks)
    [] p.val.k = "Punctuation" /\ p.val # Dash ->
         SyntaxError("Expected '-' or '.'", p.lexer)
    [] OTHER -> OkMarks(NodeHowTo(signature, body), p.lexer, marks)

\* line 219: the body starts empty
HowToBody(o) == IF ~o.ok THEN o ELSE HowToLoop(o.lexer, o.val, <<>>, <<>>)

ParseHowToStatement(l) == HowToBody(StatementOpening(l))

-----------------------------------------------------------------------------
(* parse_whatis_statement (parser.rs, lines 259-329).                      *)

RECURSIVE WhatIsLoop(_, _, _, _)
RECURSIVE WhatIsItemDone(_, _, _, _, _)
RECURSIVE WhatIsAfter(_, _, _, _)
RECURSIVE WhatIsAfterNewline(_, _, _, _)

\* The loop of lines 291-326 at its head.
WhatIsLoop(l, signature, body, marks) ==
  WhatIsItemDone(ParseWhatIsCommand(l), Pending(l), signature, body, marks)

\* lines 292-295: cmd is what parsing the item returned
WhatIsItemDone(cmd, mark, signature, body, marks) ==
  IF ~cmd.ok
    THEN cmd
    ELSE WhatIsAfter(LexerPeek(cmd.lexer), signature,
                     Append(body, cmd.val), Append(marks, mark))

\* faulty variant: a '-' after an item is consumed and ends the statement
WhatIsAfterDashEnds(p, signature, body, marks) ==
  CASE p.val = Dash ->
         OkMarks(NodeWhatIs(signature, body), LexerSkip(p.lexer), marks)
    [] p.val = Newline ->
         WhatIsAfterNewline(LexerAdvance(p.lexer), signature, body, marks)
    [] p.val.k = "Punctuation" /\ p.val # Dash ->
         SyntaxError("Expected '-'", p.lexer)
    [] OTHER -> OkMarks(NodeWhatIs(signature, body), p.lexer, marks)

\* lines 296-325: p.val is the token after the item
WhatIsAfter(p, signature, body, marks) ==
  CASE p.val = Dash -> WhatIsLoop(LexerSkip(p.lexer), signature, body, marks)
    [] p.val = Newline ->
         WhatIsAfterNewline(LexerAdvance(p.lexer), signature, body, marks)
    [] p.val.k = "Punctuation" /\ p.val # Dash ->
         SyntaxError("Expected '-'", p.lexer)
    [] OTHER -> OkMarks(NodeWhatIs(signature, body), p.lexer, marks)

\* lines 303-319: the newline is consumed, q.val is the token after it
WhatIsAfterNewline(q, signature, body, marks) ==
  CASE q.val = Newline ->
         OkMarks(NodeWhatIs(signature, body), LexerSkip(q.lexer), marks)
    [] q.val = Dash ->
         WhatIsLoop(LexerSkip(q.lexer), signature, body, marks)
    [] q.val = None -> OkMarks(NodeWhatIs(signature, body), q.lexer, marks)
    [] OTHER -> SyntaxError("Expected newline or '-'", q.lexer)

\* line 274: the body starts empty
WhatIsBody(o) == IF ~o.ok THEN o ELSE WhatIsLoop(o.lexer, o.val, <<>>, <<>>)

ParseWhatIsStatement(l) == WhatIsBody(StatementOpening(l))

-----------------------------------------------------------------------------
(* Parser::next and Parser::peek (parser.rs, lines 332-381).               *)

Parser(l, peeked) == [lexer |-> l, peeked |-> peeked]

\* what a call returns and the parser it leaves
Return(r, peeked) ==
  [res |-> [ok |-> r.ok, err |-> r.err, msg |-> r.msg, val |-> r.val],
   marks |-> r.marks,
   parser |-> Parser(r.lexer, peeked)]

\* lines 346-354: skip the newlines; the value is the first other token
RECURSIVE SkipNewlines(_)
SkipNewlines(t) ==
  IF t.val = Newline THEN SkipNewlines(LexerAdvance(t.lexer)) ELSE t

\* line 370
WrapNode(c) == IF ~c.ok THEN c ELSE Ok(NodeCommand(c.val), c.lexer)

\* faulty variant: a leading token that starts nothing is a syntax error
DispatchSyntax(t) ==
  CASE t.val = None -> Ok(NoNode, t.lexer)
    [] t.val = Keyword("howto") -> ParseHowToStatement(LexerSkip(t.lexer))
    [] t.val = Keyword("whatis") -> ParseWhatIsStatement(LexerSkip(t.lexer))
    [] t.val.k = "Identifier" -> WrapNode(ParseCommand(t.lexer))
    [] OTHER -> SyntaxError("Unexpected token", t.lexer)

\* lines 339-372: t.val is the first token that is no newline
Dispatch(t) ==
  CASE t.val = None -> Ok(NoNode, t.lexer)
    [] t.val = Keyword("howto") -> ParseHowToStatement(LexerSkip(t.lexer))
    [] t.val = Keyword("whatis") -> ParseWhatIsStatement(LexerSkip(t.lexer))
    [] t.val.k = "Keyword" /\ t.val.v \notin {"howto", "whatis"} ->
         InternalError("Unexpected keyword", t.lexer)
    [] t.val.k = "Identifier" -> WrapNode(ParseCommand(t.lexer))
    [] OTHER -> InternalError("Unexpected token", t.lexer)

\* lines 333-337: the cached node is handed out and the cache emptied
TakePeeked(p) == Return(Ok(p.peeked, p.lexer), NoNode)

ParserNext(p) ==
  IF p.peeked # NoNode
    THEN TakePeeked(p)
    ELSE Return(Dispatch(SkipNewlines(LexerPeek(p.lexer))), NoNode)

\* faulty variant: the node next() returned is not kept
FillPeekedForgotten(r) == r

\* lines 376-378: the node next() returned is kept; an error leaves the
\* cache empty
FillPeeked(r) ==
  IF ~r.res.ok THEN r ELSE [r EXCEPT !.parser.peeked = r.res.val]

ParserPeek(p) ==
  IF p.peeked = NoNode
    THEN FillPeeked(ParserNext(p))
    ELSE Return(Ok(p.peeked, p.lexer), p.peeked)

-----------------------------------------------------------------------------
(* The low-level lexer (core/cce-lowlevel/src/lexer.rs): a lexer over the  *)
(* characters of an InputStream, with a one-slot cache of its own.         *)
(*                                                                         *)
(* Characters are taken by class, one or two of each class the lexer       *)
(* tells apart.  Rust's char::is_whitespace, is_alphanumeric and           *)
(* is_numeric are the Unicode classes: the superscript two is numeric (and *)
(* so alphanumeric) and lies outside '0'..='9'.                            *)

Chars == {" ", "@", "A", "a", "1", "²", "=", "<", ">"}

\* char::is_whitespace
IsWhitespace(c) == c = " "

\* char::is_numeric
IsNumeric(c) == c \in {"1", "²"}

\* char::is_alphanumeric
IsAlphanumeric(c) == c \in {"A", "a", "1", "²"}

\* the pattern '0'..='9'
IsDigit(c) == c = "1"

\* the pattern 'A'..='Z'
IsUpper(c) == c = "A"

\* enum Token (lines 33-39); the text of a token is a sequence of characters
Variable(s) == Tok("Variable", s)
HighLevelSequence(s) == Tok("HighLevelSequence", s)

\* struct Lexer (lines 27-30): the characters the stream has not delivered
\* yet, and the peeked token
LowLexer(stream, peeked) == [stream |-> stream, peeked |-> peeked]

\* Result<T, LexerError> of a private function, and the stream it leaves
StreamOk(val, s) ==
  [ok |-> TRUE, err |-> "", char |-> "", val |-> val, stream |-> s]
StreamErr(err, c, s) ==
  [ok |-> FALSE, err |-> err, char |-> c, val |-> None, stream |-> s]

\* Result<Option<Token>, LexerError>
LowOk(tok) == [ok |-> TRUE, err |-> "", char |-> "", val |-> tok]
LowResult(r) == [ok |-> r.ok, err |-> r.err, char |-> r.char, val |-> r.val]

\* what a call of next() or peek() returned, and the lexer it leaves
LowRet(res, l) == [res |-> res, lexer |-> l]

\* the loop of create_ident (lines 64-71)
RECURSIVE IdentLoop(_, _)
IdentLoop(s, ident) ==
  IF s # <<>> /\ IsAlphanumeric(Head(s))
    THEN IdentLoop(Tail(s), Append(ident, Head(s)))
    ELSE StreamOk(ident, s)

\* create_ident (lines 60-74)
CreateIdent(s) ==
  IF s = <<>>
    THEN StreamErr("UnexpectedEndOfInput", "", s)
    ELSE IdentLoop(s, <<>>)

\* the loop of create_literal (lines 80-87)
RECURSIVE LiteralLoop(_, _)
LiteralLoop(s, literal) ==
  IF s # <<>> /\ IsNumeric(Head(s))
    THEN LiteralLoop(Tail(s), Append(literal, Head(s)))
    ELSE StreamOk(literal, s)

\* create_literal (lines 76-90)
CreateLiteral(s) ==
  IF s = <<>>
    THEN StreamErr("UnexpectedEndOfInput", "", s)
    ELSE LiteralLoop(s, <<>>)

\* faulty variant: the closing '>' is left in the stream
RECURSIVE SequenceLoopKeepsClose(_, _)
SequenceLoopKeepsClose(s, sequence) ==
  IF Head(s) = ">"
    THEN StreamOk(HighLevelSequence(sequence), s)
    ELSE IF Tail(s) = <<>>
           THEN StreamErr("UnexpectedEndOfInput", "", Tail(s))
           ELSE SequenceLoopKeepsClose(Tail(s), Append(sequence, Head(s)))

\* the loop of create_high_level_sequence and the '>' after it
\* (lines 96-103); s is not empty
RECURSIVE SequenceLoop(_, _)
SequenceLoop(s, sequence) ==
  IF Head(s) = ">"
    THEN StreamOk(HighLevelSequence(sequence), Tail(s))
    ELSE IF Tail(s) = <<>>
           THEN StreamErr("UnexpectedEndOfInput", "", Tail(s))
           ELSE SequenceLoop(Tail(s), Append(sequence, Head(s)))

\* create_high_level_sequence (lines 92-104)
CreateHighLevelSequence(s) ==
  IF s = <<>>
    THEN StreamErr("UnexpectedEndOfInput", "", s)
    ELSE SequenceLoop(s, <<>>)

\* Ok(Some(Token::Variable(..?))), Ok(Some(Token::Identifier(..?))),
\* Ok(Some(Token::Literal(..?)))
Wrapped(k, r) == IF r.ok THEN StreamOk(Tok(k, r.val), r.stream) ELSE r

\* '@' (lines 127-130)
ScanVariable(s) == Wrapped("Variable", CreateIdent(Tail(s)))

\* '0'..='9' (lines 131-133)
ScanLiteral(s) == Wrapped("Literal", CreateLiteral(s))

\* 'A'..='Z' (lines 134-136)
ScanIdentifier(s) == Wrapped("Identifier", CreateIdent(s))

\* '=' (lines 137-140)
ScanEquals(s) == StreamOk(Punctuation("="), Tail(s))

\* '<' (lines 141-144)
ScanSequence(s) == CreateHighLevelSequence(Tail(s))

\* faulty variant: the character no token starts with is consumed
ScanOtherEats(s) == StreamErr("UnexpectedCharacter", Head(s), Tail(s))

\* any other character (line 145): it stays in the stream
ScanOther(s) == StreamErr("UnexpectedCharacter", Head(s), s)

\* the match on the first character after the whitespace (lines 126-146)
Scan(s) ==
  IF s = <<>> THEN StreamOk(None, s)
  ELSE CASE Head(s) = "@" -> ScanVariable(s)
         [] IsDigit(Head(s)) -> ScanLiteral(s)
         [] IsUpper(Head(s)) -> ScanIdentifier(s)
         [] Head(s) = "=" -> ScanEquals(s)
         [] Head(s) = "<" -> ScanSequence(s)
         [] OTHER -> ScanOther(s)

\* the whitespace loop (lines 113-124)
RECURSIVE SkipWhitespace(_)
SkipWhitespace(s) ==
  IF s # <<>> /\ IsWhitespace(Head(s)) THEN SkipWhitespace(Tail(s)) ELSE s

\* the lexer a scan leaves: the cache is empty
Scanned(r) == LowRet(LowResult(r), LowLexer(r.stream, None))

\* the cached token is handed out and the cache emptied (lines 107-111)
LowTakePeeked(l) == LowRet(LowOk(l.peeked), LowLexer(l.stream, None))

\* Lexer::next (lines 106-147)
LowLexerNext(l) ==
  IF l.peeked # None
    THEN LowTakePeeked(l)
    ELSE Scanned(Scan(SkipWhitespace(l.stream)))

\* faulty variant: the token peek() read is not kept
LowFillForgotten(r) == r

\* self.peeked = self.next()?  (line 151)
LowFill(r) ==
  IF r.res.ok THEN LowRet(r.res, LowLexer(r.lexer.stream, r.res.val)) ELSE r

\* Lexer::peek (lines 149-155)
LowLexerPeek(l) ==
  IF l.peeked = None THEN LowFill(LowLexerNext(l)) ELSE LowRet(LowOk(l.peeked), l)

-----------------------------------------------------------------------------
(* The high-level lexer, character by character (spec.md 4.1 and           *)
(* core/cce-ast/tests/test_lexer.rs): the part of it that reads words,     *)
(* '-', '.' and the raw capture between two '$$' markers.  Where the       *)
(* description leaves the result of a call open (a character it names no   *)
(* token for, a capture that is never closed), the call has every outcome  *)
(* the description allows.                                                 *)

\* the letters of the source texts
Letters ==
  {"a", "b", "c", "d", "e", "h", "i", "l", "o", "r", "s", "t", "u", "w", "F"}

\* the reserved words
Reserved ==
  { <<"h", "o", "w", "t", "o">>, <<"w", "h", "a", "t", "i", "s">> }

HighLexer(stream, peeked) == [stream |-> stream, peeked |-> peeked]

\* s begins with the marker '$$'
IsMarker(s) == Len(s) >= 2 /\ s[1] = "$" /\ s[2] = "$"

\* whitespace other than a line break is skipped
RECURSIVE HighSkip(_)
HighSkip(s) == IF s # <<>> /\ Head(s) = " " THEN HighSkip(Tail(s)) ELSE s

\* an alphabetic run
RECURSIVE WordLoop(_, _)
WordLoop(s, word) ==
  IF s # <<>> /\ Head(s) \in Letters
    THEN WordLoop(Tail(s), Append(word, Head(s)))
    ELSE StreamOk(word, s)

\* a run is a Keyword when it is a reserved word, an Identifier otherwise
Word(r) ==
  IF r.val \in Reserved
    THEN StreamOk(Keyword(r.val), r.stream)
    ELSE StreamOk(Identifier(r.val), r.stream)

\* a capture the text ends in: the description names no result
Unclosed(sequence) ==
  { StreamErr("UnexpectedEndOfInput", "", <<>>),
    StreamOk(FinalSequence(sequence), <<>>) }

\* faulty variant: a single '$' closes the capture
RECURSIVE CaptureLoopSingle(_, _)
CaptureLoopSingle(s, sequence) ==
  IF s = <<>> THEN Unclosed(sequence)
  ELSE IF Head(s) = "$"
         THEN {StreamOk(FinalSequence(sequence), Tail(s))}
         ELSE CaptureLoopSingle(Tail(s), Append(sequence, Head(s)))

\* the raw capture: s is the text after the opening marker; characters are
\* kept as they come until the next marker, which is consumed
RECURSIVE CaptureLoop(_, _)
CaptureLoop(s, sequence) ==
  IF s = <<>> THEN Unclosed(sequence)
  ELSE IF IsMarker(s)
         THEN {StreamOk(FinalSequence(sequence), Tail(Tail(s)))}
         ELSE CaptureLoop(Tail(s), Append(sequence, Head(s)))

\* a character the description names no token for: a lexer error, or a
\* punctuation mark of one character
Unnamed(s) ==
  { StreamErr("UnexpectedCharacter", Head(s), s),
    StreamOk(Punctuation(Head(s)), Tail(s)) }

\* the outcomes of reading one token from s
HighScan(s) ==
  IF s = <<>> THEN {StreamOk(None, s)}
  ELSE CASE IsMarker(s) -> CaptureLoop(Tail(Tail(s)), <<>>)
         [] Head(s) \in Letters -> {Word(WordLoop(s, <<>>))}
         [] Head(s) = "-" -> {StreamOk(Punctuation("-"), Tail(s))}
         [] Head(s) = "." -> {StreamOk(Dot, Tail(s))}
         [] OTHER -> Unnamed(s)

HighScanned(r) == LowRet(LowResult(r), HighLexer(r.stream, None))

\* next(): the outcomes of one call
HighLexerNext(l) ==
  IF l.peeked # None
    THEN {LowRet(LowOk(l.peeked), HighLexer(l.stream, None))}
    ELSE {HighScanned(r) : r \in HighScan(HighSkip(l.stream))}

\* peek() keeps the token a successful next() returned
HighFill(r) ==
  IF r.res.ok THEN LowRet(r.res, HighLexer(r.lexer.stream, r.res.val)) ELSE r

\* peek(): the outcomes of one call
HighLexerPeek(l) ==
  IF l.peeked = None
    THEN {HighFill(r) : r \in HighLexerNext(l)}
    ELSE {LowRet(LowOk(l.peeked), l)}

-----------------------------------------------------------------------------
(* Inputs.  An input is a seed program cut at any place, followed by a     *)
(* free tail: every sequence of at most MaxTail tokens.  The seeds bring   *)
(* the parser to the places the grammar has (a command's head and its      *)
(* modifiers, a signature, a statement's body before and after an item,    *)
(* after a '.', after a blank line); the tails continue from there in      *)
(* every way, well-formed or not.  The empty cut gives every input of at   *)
(* most MaxTail tokens.                                                    *)

SeqsUpTo(S, n) == UNION {[1..k -> S] : k \in 0..n}

Seeds ==
  { \* a | x | a . a .
    <<Identifier("a"), Pipe, Literal("x"), Pipe, Identifier("a"), Dot,
      Identifier("a"), Dot>>,
    \* a %a \n | &a .
    <<Identifier("a"), Percent, Identifier("a"), Newline, Pipe, Ampersand,
      Identifier("a"), Dot>>,
    \* howto a ? \n - a . - x
    <<Keyword("howto"), Identifier("a"), Question, Newline, Dash,
      Identifier("a"), Dot, Dash, Literal("x")>>,
    \* whatis a ? \n - a \n \n - a
    <<Keyword("whatis"), Identifier("a"), Question, Newline, Dash,
      Identifier("a"), Newline, Newline, Dash, Identifier("a")>>,
    \* whatis a ? \n - $$f$$ \n \n - a
    <<Keyword("whatis"), Identifier("a"), Question, Newline, Dash,
      FinalSequence("f"), Newline, Newline, Dash, Identifier("a")>> }

Cuts(s) == {SubSeq(s, 1, n) : n \in 0..Len(s)}

Openings == UNION {Cuts(s) : s \in Seeds}

Inputs == {o \o t : o \in Openings, t \in SeqsUpTo(Tokens, MaxTail)}

-----------------------------------------------------------------------------
(* The state machine.                                                      *)

\* the stream offset of a lexer: how many tokens next() has delivered
Offset(l) == Len(input) - Pending(l)

NoCall ==
  [op |-> "new", res |-> [ok |-> TRUE, err |-> "", msg |-> "", val |-> NoNode],
   cached |-> FALSE, from |-> 0, to |-> 0, marks |-> <<>>]

\* The record of a call: op and res are the operation and what it returned,
\* cached whether the parser held a peeked node when it was called, from and
\* to the stream offsets before and after it, marks the offsets at which the
\* body items of the statement it parsed began.
Call(op, r) ==
  [op |-> op, res |-> r.res, cached |-> parser.peeked # NoNode,
   from |-> Offset(parser.lexer), to |-> Offset(r.parser.lexer),
   marks |-> [i \in DOMAIN r.marks |-> Len(input) - r.marks[i]]]

\* one more call of next() on the second parser: r is what it returned
OnlyNext(r, rs) == [parser |-> r.parser, out |-> Append(rs, r.res)]

\* a run of the parser leaves the low-level lexer alone: Parser::from builds
\* the high-level lexer, which does not go through cce-lowlevel
LowNoCall ==
  [op |-> "new", res |-> LowOk(None), cached |-> FALSE, from |-> 0, to |-> 0]

LowIdle ==
  /\ text = <<>>
  /\ lexer = LowLexer(<<>>, None)
  /\ tokens = <<>>
  /\ lexLast = LowNoCall
  /\ lexOnly = [lexer |-> LowLexer(<<>>, None), out |-> <<>>]

\* Parser::from(text), Parser::new (lines 81-86, 384-388)
Init ==
  /\ input \in Inputs
  /\ parser = Parser(Lexer(input, None), NoNode)
  /\ out = <<>>
  /\ last = NoCall
  /\ only = OnlyNext(ParserNext(Parser(Lexer(input, None), NoNode)), <<>>)
  /\ LowIdle

Returned(op, r) ==
  /\ parser' = r.parser
  /\ out' = IF op = "next" THEN Append(out, r.res) ELSE out
  /\ last' = Call(op, r)
  /\ UNCHANGED <<input, lowVars>>

DoNext ==
  /\ Len(out) < MaxOut
  /\ Returned("next", ParserNext(parser))
  /\ only' = OnlyNext(ParserNext(only.parser), only.out)

DoPeek ==
  /\ Len(out) < MaxOut
  /\ Returned("peek", ParserPeek(parser))
  /\ UNCHANGED only

Next == DoNext \/ DoPeek

Spec == Init /\ [][Next]_vars

-----------------------------------------------------------------------------
(* The loop over a parser (test_convert_basic, lines 28-31):               *)
(*   while let Some(node) = parser.next().unwrap() { ... }                 *)
(* next() is called until it returns Ok(None) or an error.                 *)

\* the loop goes on: no call was made yet, or the last one returned a node
Looping ==
  IF out = <<>> THEN TRUE ELSE out[Len(out)].ok /\ out[Len(out)].val # NoNode

LoopNext ==
  /\ Looping
  /\ Len(out) < MaxCalls
  /\ Returned("next", ParserNext(parser))
  /\ only' = OnlyNext(ParserNext(only.parser), only.out)

LoopSpec == Init /\ [][LoopNext]_vars

-----------------------------------------------------------------------------
(* The state machine of the low-level lexer: a Lexer over a source text,   *)
(* on which next() and peek() are called in any order.                     *)

Texts == SeqsUpTo(Chars, MaxText)

\* how many characters the stream of a lexer has delivered
CharsRead(l) == Len(text) - Len(l.stream)

\* The record of a call: op and res are the operation and what it returned,
\* cached whether the lexer held a peeked token when it was called, from and
\* to the number of characters consumed before and after it.
LowCall(op, r) ==
  [op |-> op, res |-> r.res, cached |-> lexer.peeked # None,
   from |-> CharsRead(lexer), to |-> CharsRead(r.lexer)]

\* one more call of next() on the second lexer: r is what it returned
LowOnlyNext(r, rs) == [lexer |-> r.lexer, out |-> Append(rs, r.res)]

AstIdle ==
  /\ input = <<>>
  /\ parser = Parser(Lexer(<<>>, None), NoNode)
  /\ out = <<>>
  /\ last = NoCall
  /\ only = [parser |-> Parser(Lexer(<<>>, None), NoNode), out |-> <<>>]

\* Lexer::new (lines 53-58)
LowInit ==
  /\ text \in Texts
  /\ lexer = LowLexer(text, None)
  /\ tokens = <<>>
  /\ lexLast = LowNoCall
  /\ lexOnly = LowOnlyNext(LowLexerNext(LowLexer(text, None)), <<>>)
  /\ AstIdle

LowReturned(op, r) ==
  /\ lexer' = r.lexer
  /\ tokens' = IF op = "next" THEN Append(tokens, r.res) ELSE tokens
  /\ lexLast' = LowCall(op, r)
  /\ UNCHANGED <<text, astVars>>

LowDoNext ==
  /\ Len(tokens) < MaxTokens
  /\ LowReturned("next", LowLexerNext(lexer))
  /\ lexOnly' = LowOnlyNext(LowLexerNext(lexOnly.lexer), lexOnly.out)

LowDoPeek ==
  /\ Len(tokens) < MaxTokens
  /\ LowReturned("peek", LowLexerPeek(lexer))
  /\ UNCHANGED lexOnly

LowNext == LowDoNext \/ LowDoPeek

LowSpec == LowInit /\ [][LowNext]_vars

-----------------------------------------------------------------------------
(* What the claims speak of.                                               *)

OkRes(node) == [ok |-> TRUE, err |-> "", msg |-> "", val |-> node]

\* the last call ran the parser (it did not hand out a cached node)
Parsed == last.op \in {"next", "peek"} /\ ~last.cached

\* the places of the tokens the last call took from the lexer
Consumed == (last.from + 1)..last.to

IsWord(t) == t.k \in {"Identifier", "Keyword", "Literal"}
IsSigil(t) == t.k \in {"Percent", "Ampersand"}

\* the component a word token stands for
ExpectedComponent(t) ==
  IF t.k = "Literal"
    THEN [kind |-> "Literal", text |-> t.v]
    ELSE [kind |-> "Keyword", text |-> t.v]

\* the component a sigil and its identifier stand for
ExpectedPlaceholder(sigil, ident) ==
  [kind |-> IF sigil = Percent THEN "Slot" ELSE "BackRef", text |-> ident.v]

\* a component sequence in source form: words, and sigils each followed by
\* an identifier
IsComponentText(ts) ==
  \A i \in 1..Len(ts) :
    \/ IsWord(ts[i])
    \/ IsSigil(ts[i]) /\ i < Len(ts) /\ ts[i + 1].k = "Identifier"

IsWords(ts) == \A i \in 1..Len(ts) : IsWord(ts[i])

RECURSIVE ExpectedComponents(_)
ExpectedComponents(ts) ==
  IF ts = <<>>
    THEN <<>>
    ELSE IF IsSigil(ts[1])
           THEN <<ExpectedPlaceholder(ts[1], ts[2])>>
                  \o ExpectedComponents(SubSeq(ts, 3, Len(ts)))
           ELSE <<ExpectedComponent(ts[1])>> \o ExpectedComponents(Tail(ts))

\* ts cut at every sep: the sequence of the pieces between them
RECURSIVE SplitAt(_, _)
SplitAt(ts, sep) ==
  IF \A i \in 1..Len(ts) : ts[i] # sep
    THEN <<ts>>
    ELSE LET i == CHOOSE k \in 1..Len(ts) :
                    ts[k] = sep /\ \A j \in 1..(k - 1) : ts[j] # sep
         IN  <<SubSeq(ts, 1, i - 1)>> \o SplitAt(SubSeq(ts, i + 1, Len(ts)), sep)

RECURSIVE MapComponents(_)
MapComponents(groups) ==
  IF groups = <<>>
    THEN <<>>
    ELSE <<ExpectedComponents(Head(groups))>> \o MapComponents(Tail(groups))

\* a command in source form, without its '.': a head that is not empty and
\* groups, each after a '|'
IsCommandText(ts) ==
  /\ ts # <<>>
  /\ ts[1] # Pipe
  /\ \A i \in 1..Len(ts) :
       \/ ts[i] = Pipe
       \/ IsWord(ts[i])
       \/ IsSigil(ts[i]) /\ i < Len(ts) /\ ts[i + 1].k = "Identifier"

\* the same, of identifier, keyword and literal tokens only
IsPlainCommandText(ts) ==
  /\ IsCommandText(ts)
  /\ \A i \in 1..Len(ts) : IsWord(ts[i]) \/ ts[i] = Pipe

\* the Command such a source form stands for
CommandOf(groups) ==
  [components |-> ExpectedComponents(Head(groups)),
   modifiers |-> MapComponents(Tail(groups))]

ExpectedCommand(ts) == CommandOf(SplitAt(ts, Pipe))

RECURSIVE MapCommands(_)
MapCommands(texts) ==
  IF texts = <<>>
    THEN <<>>
    ELSE <<ExpectedCommand(Head(texts))>> \o MapCommands(Tail(texts))

\* where the first '?' of the input is (0: nowhere)
QuestionAt ==
  IF \E k \in 1..Len(input) : input[k] = Question
    THEN CHOOSE k \in 1..Len(input) :
           input[k] = Question /\ \A j \in 1..(k - 1) : input[j] # Question
    ELSE 0

\* the input is a signature up to the '?' at q, a newline, '-' and something
\* after it
IsOpeningText(q) ==
  /\ q >= 2
  /\ Len(input) >= q + 3
  /\ input[q + 1] = Newline
  /\ input[q + 2] = Dash
  /\ IsComponentText(SubSeq(input, 2, q - 1))

\* the input is a statement's keyword and such an opening
IsStatementText(keyword) ==
  /\ input # <<>>
  /\ input[1] = Keyword(keyword)
  /\ IsOpeningText(QuestionAt)

SignatureText == SubSeq(input, 2, QuestionAt - 1)
BodyText == SubSeq(input, QuestionAt + 3, Len(input))

\* every component of a node, in source order
RECURSIVE FlattenModifiers(_)
FlattenModifiers(ms) ==
  IF ms = <<>> THEN <<>> ELSE Head(ms) \o FlattenModifiers(Tail(ms))

FlattenCommand(c) == c.components \o FlattenModifiers(c.modifiers)

RECURSIVE FlattenCommands(_)
FlattenCommands(cs) ==
  IF cs = <<>>
    THEN <<>>
    ELSE FlattenCommand(Head(cs)) \o FlattenCommands(Tail(cs))

RECURSIVE FlattenItems(_)
FlattenItems(b) ==
  IF b = <<>>
    THEN <<>>
    ELSE (IF Head(b).type = "Final"
            THEN <<>>
            ELSE FlattenCommand(Head(b).command))
           \o FlattenItems(Tail(b))

Flatten(node) ==
  CASE node.type = "Command" -> FlattenCommand(node.command)
    [] node.type = "HowToStatement" ->
         node.signature \o FlattenCommands(node.body)
    [] node.type = "WhatIsStatement" ->
         node.signature \o FlattenItems(node.body)
    [] OTHER -> <<>>

IsPlaceholder(c) == c.kind \in {"Slot", "BackRef"}

\* the placeholders a run of tokens stands for, in source order
RECURSIVE ExpectedPlaceholders(_)
ExpectedPlaceholders(ts) ==
  IF Len(ts) < 2
    THEN <<>>
    ELSE (IF IsSigil(ts[1])
            THEN <<ExpectedPlaceholder(ts[1], ts[2])>>
            ELSE <<>>)
           \o ExpectedPlaceholders(Tail(ts))

AllOk(rs) == \A i \in 1..Len(rs) : rs[i].ok

-----------------------------------------------------------------------------
(* C1.  Lookahead cache of the parser.  As long as the calls succeed:      *)
(* every peek() returns what the next call of next() returns, so two       *)
(* peek() in a row return the same node; a next() that finds a cached node *)
(* returns it and takes no token from the lexer; and the results of next() *)
(* are those of a parser on which peek() is never called.                  *)

C1_PeekCache ==
  /\ \A i \in 1..Len(out) :
       AllOk(SubSeq(only.out, 1, i)) => out[i] = only.out[i]
  /\ last.op = "peek" /\ AllOk(only.out) => last.res = only.out[Len(out) + 1]
  /\ last.op = "next" /\ last.cached => last.to = last.from

\* a command was peeked and then taken from the cache, after an earlier
\* command
C1_Witness ==
  /\ Len(out) = 2
  /\ last.op = "next" /\ last.cached
  /\ out[1].ok /\ out[1].val.type = "Command"
  /\ out[2].ok /\ out[2].val.type = "Command"

-----------------------------------------------------------------------------
(* C2.  A top-level command of identifier, keyword and literal tokens,     *)
(* followed by k groups each after a '|', and closed by '.', parses to one *)
(* Command: its components are the head's tokens in order, its modifiers   *)
(* the k groups in order; then the input is at its end.  The same holds of *)
(* the one command of a howto body.  (A top-level command is what the top  *)
(* level takes for one: it starts with an identifier.)                     *)

TopLevelCommandText ==
  /\ Len(input) >= 2
  /\ input[Len(input)] = Dot
  /\ input[1].k = "Identifier"
  /\ IsPlainCommandText(SubSeq(input, 1, Len(input) - 1))

HowToOneCommandText ==
  /\ IsStatementText("howto")
  /\ IsWords(SignatureText)
  /\ IsPlainCommandText(BodyText)

C2_CommandAndModifiers ==
  Len(out) >= 1 =>
    /\ TopLevelCommandText =>
         /\ out[1] = OkRes(NodeCommand(
                       ExpectedCommand(SubSeq(input, 1, Len(input) - 1))))
         /\ Len(out) >= 2 => out[2] = OkRes(NoNode)
    /\ HowToOneCommandText =>
         out[1] = OkRes(NodeHowTo(ExpectedComponents(SignatureText),
                                  <<ExpectedCommand(BodyText)>>))

\* a command with two modifiers that are not empty was returned
C2_Witness ==
  /\ TopLevelCommandText
  /\ Len(out) >= 2
  /\ out[1].ok
  /\ Len(out[1].val.command.modifiers) = 2
  /\ out[1].val.command.modifiers[1] # <<>>
  /\ out[1].val.command.modifiers[2] # <<>>
  /\ out[1].val.command.modifiers[1] # out[1].val.command.modifiers[2]

-----------------------------------------------------------------------------
(* C3.  Two or more top-level commands, each closed by '.', parse to one   *)
(* Command node per command, in source order, each made of its own tokens  *)
(* only, and then to Ok(None).                                             *)

CommandTexts == SplitAt(input, Dot)

\* texts, the input cut at every '.', is two or more commands and nothing
\* after the last '.'
AreSeveralCommands(texts) ==
  /\ Len(texts) >= 3
  /\ texts[Len(texts)] = <<>>
  /\ \A i \in 1..(Len(texts) - 1) :
       IsCommandText(texts[i]) /\ texts[i][1].k = "Identifier"

SeveralCommandsText ==
  /\ Len(input) >= 4
  /\ input[Len(input)] = Dot
  /\ input[1].k = "Identifier"
  /\ AreSeveralCommands(CommandTexts)

\* the results are those of the commands texts, in order, and then Ok(None)
AreResultsOf(texts) ==
  \A i \in 1..Len(out) :
    out[i] = IF i < Len(texts)
               THEN OkRes(NodeCommand(ExpectedCommand(texts[i])))
               ELSE OkRes(NoNode)

C3_CommandsInOrder ==
  Len(out) >= 1 /\ SeveralCommandsText => AreResultsOf(CommandTexts)

\* two different commands and the end of the input were returned
C3_Witness ==
  /\ Len(out) = 3
  /\ SeveralCommandsText
  /\ Len(CommandTexts) = 3
  /\ out[1] # out[2]
  /\ out[3] = OkRes(NoNode)

-----------------------------------------------------------------------------
(* C4.  'howto', a signature, '?', a newline, '-' and one or more body     *)
(* commands separated by '-', with no '.' at the end, parses to one        *)
(* HowToStatement with that signature and those commands in order; the     *)
(* call after it returns Ok(None).                                         *)

BodyTexts == SplitAt(BodyText, Dash)

AreCommandTexts(texts) == \A i \in 1..Len(texts) : IsCommandText(texts[i])

HowToText ==
  /\ IsStatementText("howto")
  /\ AreCommandTexts(BodyTexts)

C4_HowToWithoutDot ==
  Len(out) >= 1 /\ HowToText =>
    /\ out[1] = OkRes(NodeHowTo(ExpectedComponents(SignatureText),
                                MapCommands(BodyTexts)))
    /\ Len(out) >= 2 => out[2] = OkRes(NoNode)

\* a howto statement of two body commands was returned, and then Ok(None)
C4_Witness ==
  /\ Len(out) = 2
  /\ HowToText
  /\ Len(BodyTexts) = 2
  /\ out[1].ok /\ out[1].val.type = "HowToStatement"
  /\ Len(out[1].val.body) = 2
  /\ out[2] = OkRes(NoNode)

-----------------------------------------------------------------------------
(* C5.  In the body of a returned whatis statement an item is Final(text)  *)
(* exactly when the first token of the item is FinalSequence(text), and    *)
(* that token is consumed; every other item is a Command.  A whatis        *)
(* statement whose body is one run of words up to the end of the input has *)
(* one Command item.                                                       *)

ReturnedWhatIs ==
  Parsed /\ last.res.ok /\ last.res.val.type = "WhatIsStatement"

\* the token the i-th body item of the last statement began with
FirstOfItem(i) ==
  IF last.marks[i] < Len(input) THEN input[last.marks[i] + 1] ELSE None

WhatIsWordsText ==
  /\ IsStatementText("whatis")
  /\ IsWords(SignatureText)
  /\ BodyText # <<>>
  /\ IsWords(BodyText)

C5_FinalItems ==
  /\ ReturnedWhatIs =>
       /\ Len(last.marks) = Len(last.res.val.body)
       /\ \A i \in 1..Len(last.marks) :
            IF FirstOfItem(i).k = "FinalSequence"
              THEN /\ last.res.val.body[i] = WhatIsCommandFinal(FirstOfItem(i).v)
                   /\ last.marks[i] + 1 \in Consumed
              ELSE last.res.val.body[i].type = "Command"
  /\ Len(out) >= 1 /\ WhatIsWordsText
       => out[1] = OkRes(NodeWhatIs(
                     ExpectedComponents(SignatureText),
                     <<WhatIsCommandCommand(ExpectedCommand(BodyText))>>))

\* a whatis statement with a Final item and a Command item was returned
C5_Witness ==
  /\ ReturnedWhatIs
  /\ \E i, j \in 1..Len(last.res.val.body) :
       /\ last.res.val.body[i].type = "Final"
       /\ last.res.val.body[j].type = "Command"
       /\ last.res.val.body[j].command.components # <<>>

-----------------------------------------------------------------------------
(* C6.  In a howto statement a '.' after a body command ends the           *)
(* statement: no command of the body of a returned HowToStatement begins   *)
(* after a '.' that follows a word of the body.                            *)

ReturnedHowTo ==
  Parsed /\ last.res.ok /\ last.res.val.type = "HowToStatement"

\* a '.' at j, right after a word of the body and before item i
DotBefore(i, j) ==
  /\ last.marks[1] + 1 < j
  /\ j <= last.marks[i]
  /\ input[j] = Dot
  /\ IsWord(input[j - 1])

C6_DotEndsHowTo ==
  ReturnedHowTo =>
    \A i \in 1..Len(last.marks) :
      IsWord(FirstOfItem(i)) => \A j \in Consumed : ~DotBefore(i, j)

-----------------------------------------------------------------------------
(* C7.  In a whatis statement a blank line (two Newline tokens in a row)   *)
(* after a body item ends the statement: no body item of a returned        *)
(* WhatIsStatement begins with a word after a blank line that follows the  *)
(* first item's beginning.                                                 *)

\* a blank line at j, j + 1 after the first item began and before item i
BlankLineBefore(i, j) ==
  /\ last.marks[1] < j
  /\ j + 1 <= last.marks[i]
  /\ input[j] = Newline
  /\ input[j + 1] = Newline

C7_BlankLineEndsWhatIs ==
  ReturnedWhatIs =>
    \A i \in 1..Len(last.marks) :
      IsWord(FirstOfItem(i)) => \A j \in Consumed : ~BlankLineBefore(i, j)

\* The part of it that is about Final items: no body item at all begins
\* after a blank line that follows a Final item.
BlankLineAfterFinal ==
  ReturnedWhatIs =>
    \A i \in 1..Len(last.marks) :
      \A j \in Consumed :
        BlankLineBefore(i, j) => input[j - 1].k # "FinalSequence"

\* a statement ended at the blank line after its Final item, a '-' behind it
BlankLineAfterFinalSeen ==
  /\ ReturnedWhatIs
  /\ last.to + 1 <= Len(input)
  /\ input[last.to + 1] = Dash
  /\ input[last.to] = Newline
  /\ input[last.to - 1] = Newline
  /\ input[last.to - 2].k = "FinalSequence"

-----------------------------------------------------------------------------
(* C8.  In a whatis statement a body item followed by exactly one Newline  *)
(* and then by a token that is neither a Newline nor '-' fails with        *)
(* SyntaxError: no WhatIsStatement is returned by a call that consumed     *)
(* such a Newline.                                                         *)

\* one newline at j, after the first item began, between a token of an item
\* and a token that may not follow
LoneNewlineAt(j) ==
  /\ last.marks[1] + 1 < j
  /\ j < Len(input)
  /\ input[j] = Newline
  /\ input[j - 1] # Newline
  /\ input[j - 1] # Dash
  /\ input[j + 1] \notin {Newline, Dash}

C8_LoneNewlineFails ==
  ReturnedWhatIs => \A j \in Consumed : ~LoneNewlineAt(j)

\* The part of it that is about Final items: no WhatIsStatement is returned
\* by a call that consumed such a Newline right after a Final item.
LoneNewlineAfterFinal ==
  ReturnedWhatIs =>
    \A j \in Consumed : LoneNewlineAt(j) => input[j - 1].k # "FinalSequence"

\* a call failed behind the one Newline after a Final item
LoneNewlineAfterFinalSeen ==
  /\ Parsed /\ ~last.res.ok
  /\ last.res.err = "SyntaxError"
  /\ last.to >= 2
  /\ last.to < Len(input)
  /\ input[last.to] = Newline
  /\ input[last.to - 1].k = "FinalSequence"
  /\ input[last.to + 1].k = "Identifier"

-----------------------------------------------------------------------------
(* C9.  A '%' or '&' the parser consumes is followed by an identifier,     *)
(* which is consumed with it; a call that consumes a sigil followed by     *)
(* anything else, or by the end of the input, fails with SyntaxError.  The *)
(* Slot and BackRef components of a returned node are, in order, those of  *)
(* the sigils and identifiers the call consumed.                           *)

C9_SigilsTakeIdentifiers ==
  Parsed =>
    /\ last.res.ok =>
         \A j \in Consumed :
           IsSigil(input[j]) =>
             j + 1 \in Consumed /\ input[j + 1].k = "Identifier"
    /\ last.to > last.from /\ IsSigil(input[last.to]) =>
         ~last.res.ok /\ last.res.err = "SyntaxError"
    /\ last.res.ok =>
         SelectSeq(Flatten(last.res.val), IsPlaceholder)
           = ExpectedPlaceholders(SubSeq(input, last.from + 1, last.to))

\* a command with a Slot and a BackRef was returned
C9_Witness ==
  /\ Parsed /\ last.res.ok
  /\ \E i, j \in 1..Len(Flatten(last.res.val)) :
       /\ Flatten(last.res.val)[i].kind = "Slot"
       /\ Flatten(last.res.val)[j].kind = "BackRef"

-----------------------------------------------------------------------------
(* C10.  A FinalSequence token is consumed only as the first token of a    *)
(* whatis body item, where it makes a Final item; a call that meets one    *)
(* right after a word, a '|' or a '-' it consumed fails with SyntaxError.  *)

StartsComponents(t) == IsWord(t) \/ t = Pipe \/ t = Dash

C10_FinalOnlyInWhatIsBody ==
  Parsed =>
    /\ last.res.ok =>
         \A j \in Consumed :
           input[j].k = "FinalSequence" =>
             /\ last.res.val.type = "WhatIsStatement"
             /\ \E i \in 1..Len(last.marks) :
                  /\ last.marks[i] + 1 = j
                  /\ last.res.val.body[i] = WhatIsCommandFinal(input[j].v)
    /\ ( /\ last.to > last.from
         /\ last.to < Len(input)
         /\ StartsComponents(input[last.to])
         /\ input[last.to + 1].k = "FinalSequence" )
       => ~last.res.ok /\ last.res.err = "SyntaxError"

\* a call failed at a FinalSequence token after the words it consumed
C10_Witness ==
  /\ Parsed /\ ~last.res.ok
  /\ last.res.msg = "Final sequences are not allowed here"
  /\ last.to > last.from
  /\ IsWord(input[last.to])

-----------------------------------------------------------------------------
(* C11.  Parser::next at the top level skips the leading newlines; with    *)
(* nothing left it returns Ok(None); after 'howto' it returns no node but  *)
(* a HowToStatement, after 'whatis' none but a WhatIsStatement, at an      *)
(* identifier none but a Command, the leading token consumed in all three  *)
(* cases; at every other leading token it fails with InternalError and     *)
(* consumes nothing but the newlines.                                      *)

\* the first place from i on that holds no Newline (Len(input) + 1: none)
RECURSIVE SkipTo(_)
SkipTo(i) ==
  IF i <= Len(input) /\ input[i] = Newline THEN SkipTo(i + 1) ELSE i

\* what a call that begins at the token at k returns
DispatchedAt(k) ==
  CASE k > Len(input) -> last.res = OkRes(NoNode) /\ last.to = Len(input)
    [] k <= Len(input) /\ input[k] = Keyword("howto") ->
         /\ last.to >= k
         /\ last.res.ok => last.res.val.type = "HowToStatement"
    [] k <= Len(input) /\ input[k] = Keyword("whatis") ->
         /\ last.to >= k
         /\ last.res.ok => last.res.val.type = "WhatIsStatement"
    [] k <= Len(input) /\ input[k].k = "Identifier" ->
         /\ last.to >= k
         /\ last.res.ok => last.res.val.type = "Command"
    [] OTHER ->
         /\ ~last.res.ok
         /\ last.res.err = "InternalError"
         /\ last.to = k - 1

C11_TopLevelDispatch == Parsed => DispatchedAt(SkipTo(last.from + 1))

\* a call skipped a newline and failed at a literal
C11_Witness ==
  /\ Parsed /\ ~last.res.ok
  /\ last.res.err = "InternalError"
  /\ last.to > last.from
  /\ last.to < Len(input)
  /\ input[last.to + 1].k = "Literal"

-----------------------------------------------------------------------------
(* C16.  The opening of a howto or whatis statement: right after the       *)
(* signature come '?', a newline and '-', in this order and with nothing   *)
(* between them.  A call that begins at 'howto' or 'whatis' and does not   *)
(* find the three fails with SyntaxError, at the latest at the place of    *)
(* the third, and returns no node.                                         *)

\* where the component sequence that begins at i ends: the first place that
\* holds neither a word nor a sigil with its identifier
RECURSIVE SigEnd(_)
SigEnd(i) ==
  IF i > Len(input)
    THEN i
    ELSE IF IsWord(input[i])
           THEN SigEnd(i + 1)
           ELSE IF /\ IsSigil(input[i])
                   /\ i < Len(input)
                   /\ input[i + 1].k = "Identifier"
                  THEN SigEnd(i + 2)
                  ELSE i

\* '?', a newline and '-' at q, q + 1, q + 2
OpensAt(q) ==
  /\ q + 2 <= Len(input)
  /\ input[q] = Question
  /\ input[q + 1] = Newline
  /\ input[q + 2] = Dash

\* what a call returns that begins at a statement's keyword, whose signature
\* ends before q
OpenedAt(q) ==
  IF OpensAt(q)
    THEN last.to >= q + 2
    ELSE ~last.res.ok /\ last.res.err = "SyntaxError" /\ last.to < q + 2

StatementAt(k) ==
  /\ k <= Len(input)
  /\ input[k] \in {Keyword("howto"), Keyword("whatis")}
  => OpenedAt(SigEnd(k + 1))

C16_StatementOpening == Parsed => StatementAt(SkipTo(last.from + 1))

\* a call failed at a second newline before the first '-'
C16_Witness ==
  /\ Parsed /\ ~last.res.ok
  /\ last.res.msg = "Expected '-'"
  /\ last.to >= 2
  /\ last.to < Len(input)
  /\ input[last.to - 1] = Question
  /\ input[last.to] = Newline
  /\ input[last.to + 1] = Newline

-----------------------------------------------------------------------------
(* C17.  Line breaks before a command's trailing punctuation: a top-level  *)
(* command with newlines put before its '|' and its '.' parses to the      *)
(* Command it parses to without them; and the parse of a command consumes  *)
(* every newline that follows the command, so the token after a returned   *)
(* Command or HowToStatement is a newline only behind a '.'.               *)

NotNewline(t) == t # Newline

\* every newline of the input stands before a '|' or a '.', other newlines
\* between them at most
NewlinesBeforeMarks ==
  \A i \in 1..Len(input) :
    input[i] = Newline =>
      /\ SkipTo(i) <= Len(input)
      /\ input[SkipTo(i)] \in {Pipe, Dot}

\* ts, the input without its newlines, is one command closed by '.'
IsOneCommand(ts) ==
  /\ Len(ts) >= 2
  /\ Len(ts) < Len(input)
  /\ IsCommandText(SubSeq(ts, 1, Len(ts) - 1))

BrokenCommandText ==
  /\ Len(input) >= 3
  /\ input[1].k = "Identifier"
  /\ input[Len(input)] = Dot
  /\ NewlinesBeforeMarks
  /\ IsOneCommand(SelectSeq(input, NotNewline))

\* the Command of ts without its '.' was returned first
IsFirstResult(ts) ==
  out[1] = OkRes(NodeCommand(ExpectedCommand(SubSeq(ts, 1, Len(ts) - 1))))

C17_NewlinesBeforeMarks ==
  /\ Len(out) >= 1 /\ BrokenCommandText
       => IsFirstResult(SelectSeq(input, NotNewline))
  /\ ( /\ Parsed /\ last.res.ok
       /\ last.res.val.type \in {"Command", "HowToStatement"}
       /\ last.to < Len(input)
       /\ input[last.to + 1] = Newline )
     => input[last.to] = Dot

\* a command was returned whose modifier came after a line break
C17_Witness ==
  /\ Len(out) >= 1 /\ BrokenCommandText
  /\ out[1].ok
  /\ out[1].val.command.modifiers # <<>>
  /\ \E i \in 2..Len(input) : input[i - 1] = Newline /\ input[i] = Pipe

-----------------------------------------------------------------------------
(* C18.  A call that fails has only peeked the token it fails at: the      *)
(* token is the one the error's message speaks of, it is in the lexer's    *)
(* cache, so the lexer delivers it next, and the parser's node cache is    *)
(* empty.  At the end of the input the lexer's cache is empty too.         *)

\* the token after the last one the last call consumed
FailingToken ==
  IF last.to < Len(input) THEN input[last.to + 1] ELSE None

\* t is a token the error of this message is raised at
IsCulprit(msg, t) ==
  CASE msg = "Expected identifier" -> t.k # "Identifier"
    [] msg = "Final sequences are not allowed here" -> t.k = "FinalSequence"
    [] msg = "Expected '?'" -> t # Question
    [] msg = "Expected newline" -> t # Newline
    [] msg = "Expected '-'" -> t # Dash
    [] msg = "Expected '|'" -> t.k = "Punctuation" /\ t \notin {Pipe, Dash}
    [] msg = "Expected '-' or '.'" -> t.k = "Punctuation" /\ t # Dash
    [] msg = "Expected newline or '-'" -> t \notin {Newline, Dash, None}
    [] msg = "Unexpected token" ->
         t.k \notin {"Keyword", "Identifier", "Newline", "None"}
    [] msg = "Unexpected keyword" -> t.k = "Keyword"
    [] OTHER -> FALSE

C18_FailingTokenPeeked ==
  last.op \in {"next", "peek"} /\ ~last.res.ok =>
    /\ last.res.err \in {"SyntaxError", "InternalError"}
    /\ IsCulprit(last.res.msg, FailingToken)
    /\ parser.lexer.peeked = FailingToken
    /\ Pending(parser.lexer) = Len(input) - last.to
    /\ parser.peeked = NoNode

\* a call consumed a sigil and failed at the reserved word after it, which
\* stays in the lexer's cache
C18_Witness ==
  /\ last.op = "peek" /\ ~last.res.ok
  /\ last.res.msg = "Expected identifier"
  /\ last.to >= 1
  /\ IsSigil(input[last.to])
  /\ parser.lexer.peeked = Keyword("howto")

-----------------------------------------------------------------------------
(* C19.  A failure is terminal: once next() has returned an error, no      *)
(* later next() returns a node.                                            *)

\* the j-th call of next() returned a node
IsNode(j) == out[j].ok /\ out[j].val # NoNode

C19_FailureIsTerminal ==
  \A i \in 1..Len(out) :
    ~out[i].ok => \A j \in (i + 1)..Len(out) : ~IsNode(j)

-----------------------------------------------------------------------------
(* The state machine of the high-level lexer's raw capture: a lexer over a *)
(* source text, on which next() and peek() are called in any order.  It    *)
(* uses the variables of the low-level lexer for its text, its lexer, its  *)
(* results and its last call.                                              *)

\* the characters of the free texts: the marker's character, a letter, a
\* space, a brace, a colon and a '.'
HighChars == {"$", "a", " ", "{", ":", "."}

\* "hello -$$ struct $Foo { $bar: u32 } $$."  (test_lexer_final)
TestLexerFinal ==
  <<"h", "e", "l", "l", "o", " ", "-", "$", "$",
    " ", "s", "t", "r", "u", "c", "t", " ", "$", "F", "o", "o", " ", "{",
    " ", "$", "b", "a", "r", ":", " ", "u", "3", "2", " ", "}", " ",
    "$", "$", ".">>

\* "howto hello world"  (test_lexer_basic)
TestLexerBasic ==
  <<"h", "o", "w", "t", "o", " ", "h", "e", "l", "l", "o", " ",
    "w", "o", "r", "l", "d">>

\* what a text begins with before its opening marker: nothing, or a word
\* and a '-'
HighOpenings == { <<>>, <<"a", " ", "-">> }

\* the texts: the two texts of the tests, and an opening marker followed by
\* every text of at most MaxText characters
HighTexts ==
  {TestLexerFinal, TestLexerBasic} \cup
  {o \o <<"$", "$">> \o t : o \in HighOpenings, t \in SeqsUpTo(HighChars, MaxText)}

HighInit ==
  /\ text \in HighTexts
  /\ lexer = HighLexer(text, None)
  /\ tokens = <<>>
  /\ lexLast = LowNoCall
  /\ lexOnly = [lexer |-> HighLexer(text, None), out |-> <<>>]
  /\ AstIdle

HighReturned(op, r) ==
  /\ lexer' = r.lexer
  /\ tokens' = IF op = "next" THEN Append(tokens, r.res) ELSE tokens
  /\ lexLast' = LowCall(op, r)
  /\ UNCHANGED <<text, lexOnly, astVars>>

HighDoNext ==
  /\ Len(tokens) < MaxTokens
  /\ \E r \in HighLexerNext(lexer) : HighReturned("next", r)

HighDoPeek ==
  /\ Len(tokens) < MaxTokens
  /\ \E r \in HighLexerPeek(lexer) : HighReturned("peek", r)

HighNext == HighDoNext \/ HighDoPeek

HighSpec == HighInit /\ [][HighNext]_vars

-----------------------------------------------------------------------------
(* What the claims about the low-level lexer speak of.                     *)

\* Err(LexerError::UnexpectedCharacter(c)), Err(LexerError::UnexpectedEndOfInput)
LowFailure(err, c) == [ok |-> FALSE, err |-> err, char |-> c, val |-> None]

\* the last call read the stream: the cache was empty when it was made
Scans == lexLast.op # "new" /\ ~lexLast.cached

\* the place of the first character at or after offset n that is no
\* whitespace, less one; the length of the text when there is none
BlankEnd(n) ==
  CHOOSE m \in n..Len(text) :
    /\ \A i \in (n + 1)..m : IsWhitespace(text[i])
    /\ m < Len(text) => ~IsWhitespace(text[m + 1])

\* the text from offset n on
From(n) == SubSeq(text, n + 1, Len(text))

\* what the last call had before it, leading whitespace left out
Ahead == From(BlankEnd(lexLast.from))

\* the longest run of alphanumeric characters s begins with
AlnumRun(s) ==
  SubSeq(s, 1, CHOOSE n \in 0..Len(s) :
                 /\ \A i \in 1..n : IsAlphanumeric(s[i])
                 /\ n < Len(s) => ~IsAlphanumeric(s[n + 1]))

\* the longest run of the digits '0'..'9' s begins with
DigitRun(s) ==
  SubSeq(s, 1, CHOOSE n \in 0..Len(s) :
                 /\ \A i \in 1..n : IsDigit(s[i])
                 /\ n < Len(s) => ~IsDigit(s[n + 1]))

\* the last call returned Ok(Some(tok))
Gave(tok) == lexLast.res = LowOk(tok)

\* the last call failed with UnexpectedCharacter(c)
Refused(c) == lexLast.res = LowFailure("UnexpectedCharacter", c)

\* the result the classification names for the text s; lit tells whether
\* the rule for a Literal is asked for
ClassifiedAs(s, lit) ==
  IF s = <<>> THEN Gave(None)
  ELSE CASE Head(s) = "@" ->
              (Len(s) > 1 /\ IsAlphanumeric(s[2]))
                => Gave(Variable(AlnumRun(Tail(s))))
         [] IsUpper(Head(s)) -> Gave(Identifier(AlnumRun(s)))
         [] IsDigit(Head(s)) -> lit => Gave(Literal(DigitRun(s)))
         [] Head(s) = "=" -> Gave(Punctuation("="))
         [] Head(s) = "<" -> TRUE
         [] OTHER -> Refused(Head(s))

-----------------------------------------------------------------------------
(* C12.  Classification by the low-level lexer.  A call that reads the     *)
(* stream skips the whitespace and then: at the end of the input returns   *)
(* Ok(None); at '@' followed by an alphanumeric character returns Variable *)
(* of the alphanumeric run after the '@'; at 'A'..'Z' returns Identifier   *)
(* of the longest alphanumeric run; at a digit returns Literal of the      *)
(* longest run of digits; at '=' returns Punctuation('='); at any other    *)
(* character c but '<', a lowercase letter included, fails with            *)
(* UnexpectedCharacter(c).                                                 *)

C12_Classification == Scans => ClassifiedAs(Ahead, TRUE)

\* all of it but the rule for a Literal
ClassifiedButLiteral == Scans => ClassifiedAs(Ahead, FALSE)

\* a Literal holds the longest numeric run (char::is_numeric) of the text
\* that begins with a digit '0'..'9'
LiteralIsNumericRun ==
  (Scans /\ Ahead # <<>> /\ IsDigit(Head(Ahead)))
    => /\ lexLast.res.ok
       /\ lexLast.res.val.k = "Literal"
       /\ \E n \in 1..Len(Ahead) :
            /\ lexLast.res.val.v = SubSeq(Ahead, 1, n)
            /\ \A i \in 1..n : IsNumeric(Ahead[i])
            /\ n < Len(Ahead) => ~IsNumeric(Ahead[n + 1])

\* a call has returned the Variable of a run of two characters
ClassifiedSeen ==
  /\ Scans
  /\ Len(Ahead) > 1
  /\ Head(Ahead) = "@"
  /\ Gave(Variable(<<"a", "1">>))

-----------------------------------------------------------------------------
(* C13.  The quotation window of the low-level lexer.  A call that reads   *)
(* the stream and finds '<' after the whitespace returns                   *)
(* HighLevelSequence(t), t being exactly the characters between that '<'   *)
(* and the first '>' after it (a '<' among them is ordinary text), and     *)
(* leaves the stream right after that '>'; when no '>' follows, the call   *)
(* fails with UnexpectedEndOfInput.                                        *)

\* s has a '>'
HasClose(s) == \E p \in 1..Len(s) : s[p] = ">"

\* the place of the first '>' of s
FirstClose(s) ==
  CHOOSE p \in 1..Len(s) : s[p] = ">" /\ \A i \in 1..(p - 1) : s[i] # ">"

\* the last call read the stream and found '<' after the whitespace
AtOpen == Scans /\ Ahead # <<>> /\ Head(Ahead) = "<"

\* the window that opens at the '<' at offset n: s is the text after the '<'
WindowAt(n, s) ==
  IF HasClose(s)
    THEN /\ Gave(HighLevelSequence(SubSeq(s, 1, FirstClose(s) - 1)))
         /\ lexLast.to = n + 1 + FirstClose(s)
    ELSE lexLast.res = LowFailure("UnexpectedEndOfInput", "")

C13_QuotationWindow ==
  AtOpen => WindowAt(BlankEnd(lexLast.from), Tail(Ahead))

\* a window with a '<' inside has been returned by next(), and the next()
\* after it returned the Identifier that follows the '>'
C13_Witness ==
  /\ lexLast.op = "next"
  /\ Len(tokens) = 2
  /\ tokens[1] = LowOk(HighLevelSequence(<<"<">>))
  /\ tokens[2] = LowOk(Identifier(<<"A">>))

-----------------------------------------------------------------------------
(* C14.  Lookahead cache of the low-level lexer.  As long as the calls     *)
(* succeed: every peek() returns what the next call of next() returns, so  *)
(* two peek() in a row return the same token; a call that finds a cached   *)
(* token reads nothing from the stream; and the results of next() are      *)
(* those of a lexer on which peek() is never called.  At the end of the    *)
(* input (nothing but whitespace left, no token cached) a call returns     *)
(* Ok(None), and after an Ok(None) every next() returns Ok(None).          *)

\* after an Ok(None) of next() every next() returned Ok(None)
EndIsLast ==
  \A i \in 1..Len(tokens) :
    tokens[i] = LowOk(None)
      => \A j \in i..Len(tokens) : tokens[j] = LowOk(None)

C14_LowPeekCache ==
  /\ \A i \in 1..Len(tokens) :
       AllOk(SubSeq(lexOnly.out, 1, i)) => tokens[i] = lexOnly.out[i]
  /\ lexLast.op = "peek" /\ AllOk(lexOnly.out)
       => lexLast.res = lexOnly.out[Len(tokens) + 1]
  /\ lexLast.cached => lexLast.to = lexLast.from
  /\ Scans /\ Ahead = <<>> => lexLast.res = LowOk(None) /\ lexer.peeked = None
  /\ EndIsLast

\* a token was peeked and then taken from the cache, after an earlier
\* token and with more text behind it
C14_Witness ==
  /\ Len(tokens) = 2
  /\ lexLast.op = "next" /\ lexLast.cached
  /\ tokens[1].ok /\ tokens[1].val # None
  /\ tokens[2].ok /\ tokens[2].val # None
  /\ lexLast.to < Len(text)

-----------------------------------------------------------------------------
(* C20.  An UnexpectedCharacter failure of the low-level lexer.  A call    *)
(* that fails with UnexpectedCharacter(c) leaves the stream at c, with     *)
(* only the whitespace before c consumed, and the cache empty; every call  *)
(* after it fails with the same UnexpectedCharacter(c), so no call after   *)
(* it returns Ok(None).                                                    *)

\* the i-th next() failed with UnexpectedCharacter
IsRefusal(i) == ~tokens[i].ok /\ tokens[i].err = "UnexpectedCharacter"

\* the last call failed with UnexpectedCharacter
Refusal == ~lexLast.res.ok /\ lexLast.res.err = "UnexpectedCharacter"

C20_UnexpectedCharacterStays ==
  /\ Refusal =>
       /\ lexLast.to < Len(text)
       /\ text[lexLast.to + 1] = lexLast.res.char
       /\ lexLast.to = BlankEnd(lexLast.from)
       /\ lexer = LowLexer(From(lexLast.to), None)
  /\ \A i \in 1..Len(tokens) :
       IsRefusal(i) =>
         /\ \A j \in i..Len(tokens) : tokens[j] = tokens[i]
         /\ lexLast.res = tokens[i]

\* next() failed with UnexpectedCharacter after a token, and a peek() after
\* it failed again
C20_Witness ==
  /\ Len(tokens) = 2
  /\ tokens[1].ok
  /\ IsRefusal(2)
  /\ lexLast.op = "peek"
  /\ Refusal

-----------------------------------------------------------------------------
(* C15.  Raw capture of the high-level lexer.  A call that reads the       *)
(* stream and finds the marker '$$' after the whitespace, with another     *)
(* '$$' somewhere after it, returns one token FinalSequence(t), t being    *)
(* exactly the characters between the opening marker and the first '$$'    *)
(* after it (single '$', braces, colons and spaces among them), and leaves *)
(* the stream right after that closing marker.  On the text of             *)
(* test_lexer_final the third token is the FinalSequence the test expects. *)

\* s has the marker '$$' at place p
MarkerAt(s, p) == p < Len(s) /\ s[p] = "$" /\ s[p + 1] = "$"

\* s has a marker
HasMarker(s) == \E p \in 1..Len(s) : MarkerAt(s, p)

\* the place of the first marker of s
FirstMarker(s) ==
  CHOOSE p \in 1..Len(s) :
    MarkerAt(s, p) /\ \A i \in 1..Len(s) : i < p => ~MarkerAt(s, i)

\* the last call read the stream and found '$$' after the whitespace
AtMarker == Scans /\ IsMarker(Ahead)

\* the capture that opens with the marker at offset n: s is the text after
\* the marker
CaptureAt(n, s) ==
  HasMarker(s)
    => /\ Gave(FinalSequence(SubSeq(s, 1, FirstMarker(s) - 1)))
       /\ lexLast.to = n + 2 + FirstMarker(s) + 1

\* " struct $Foo { $bar: u32 } "
TestLexerFinalSequence == SubSeq(TestLexerFinal, 10, 36)

\* what test_lexer_final expects of the first three calls of next()
TestLexerFinalTokens ==
  << LowOk(Identifier(<<"h", "e", "l", "l", "o">>)),
     LowOk(Punctuation("-")),
     LowOk(FinalSequence(TestLexerFinalSequence)) >>

C15_RawCapture ==
  /\ AtMarker => CaptureAt(BlankEnd(lexLast.from), Tail(Tail(Ahead)))
  /\ text = TestLexerFinal =>
       \A i \in 1..Len(tokens) : i <= 3 => tokens[i] = TestLexerFinalTokens[i]

\* the third next() on the text of test_lexer_final has returned the
\* captured text, with its single '$', its braces, its colon and its spaces
C15_Witness ==
  /\ text = TestLexerFinal
  /\ Len(tokens) = 3
  /\ lexLast.op = "next"
  /\ ~lexLast.cached
  /\ AtMarker
  /\ tokens[3].val.k = "FinalSequence"
  /\ {"$", "{", ":", " "} \subseteq {tokens[3].val.v[i] : i \in 1..Len(tokens[3].val.v)}

-----------------------------------------------------------------------------
(* C21.  Every Literal the low-level lexer returns holds digits only: each *)
(* character of its text is one of '0'..'9', the class a Literal starts    *)
(* with.                                                                   *)

\* every character of s is one of '0'..'9'
AllDigits(s) == \A i \in 1..Len(s) : IsDigit(s[i])

\* the result r is no Literal, or a Literal of digits
DigitsIfLiteral(r) == (r.ok /\ r.val.k = "Literal") => AllDigits(r.val.v)

C21_LiteralDigitsOnly ==
  /\ DigitsIfLiteral(lexLast.res)
  /\ \A i \in 1..Len(tokens) : DigitsIfLiteral(tokens[i])

\* every character of s is numeric (char::is_numeric)
AllNumeric(s) == \A i \in 1..Len(s) : IsNumeric(s[i])

\* every Literal returned begins with one of '0'..'9' and holds numeric
\* characters only
LiteralIsNumeric ==
  \A i \in 1..Len(tokens) :
    (tokens[i].ok /\ tokens[i].val.k = "Literal")
      => /\ tokens[i].val.v # <<>>
         /\ IsDigit(tokens[i].val.v[1])
         /\ AllNumeric(tokens[i].val.v)

-----------------------------------------------------------------------------
(* C22.  Progress and termination of the parser.  A call of next() that    *)
(* returns a node without taking it from the cache consumes at least one   *)
(* token; so the loop that calls next() until it returns Ok(None) or an    *)
(* error makes at most one call more than the input has tokens.            *)

\* the last call returned a node it parsed
ParsedNode == Parsed /\ last.res.ok /\ last.res.val # NoNode

\* the loop has stopped: the last call returned Ok(None) or an error
Stopped == ~Looping

C22_Progress ==
  /\ ParsedNode => last.to > last.from
  /\ Len(out) <= Len(input) + 1
  /\ Len(out) <= last.to + 1
  /\ Len(out) < MaxCalls

\* the loop has stopped after two nodes, on an input longer than the inputs
\* without a seed, having made fewer calls than it was allowed
C22_Witness ==
  /\ Stopped
  /\ Len(out) = 3
  /\ IsNode(1) /\ IsNode(2)
  /\ last.res = OkRes(NoNode)
  /\ Len(input) > MaxTail
  /\ Len(out) < MaxCalls

-----------------------------------------------------------------------------
(* C23.  A returned howto or whatis statement has exactly one body item    *)
(* for each '-' the call consumed, in source order: the i-th item begins   *)
(* right after the i-th '-'.  So the body is never empty; and an item      *)
(* whose '-' is directly followed by another '-' or by the end of the      *)
(* input is a Command with no components and no modifiers.                 *)

ReturnedStatement == ReturnedHowTo \/ ReturnedWhatIs

\* the places of the '-' tokens the last call consumed
DashPlaces == {i \in Consumed : input[i] = Dash}

\* the '-' at place i has another '-' or the end of the input right after it
IsBareDash(i) == i = Len(input) \/ input[i + 1] = Dash

\* the body item that is a Command with nothing in it
EmptyItem ==
  IF last.res.val.type = "HowToStatement"
    THEN Command(<<>>, <<>>)
    ELSE WhatIsCommandCommand(Command(<<>>, <<>>))

\* the items of body are one for each '-', in the order of the source
OnePerDash(body) ==
  /\ Len(body) >= 1
  /\ Len(body) = Cardinality(DashPlaces)
  /\ Len(last.marks) = Len(body)
  /\ \A i \in 1..Len(body) :
       /\ last.marks[i] \in DashPlaces
       /\ Cardinality({d \in DashPlaces : d <= last.marks[i]}) = i
       /\ IsBareDash(last.marks[i]) => body[i] = EmptyItem

C23_OneItemPerDash == ReturnedStatement => OnePerDash(last.res.val.body)

\* a statement of three items was returned whose second '-' is directly
\* followed by the third, the first and the third item being commands of
\* words
C23_Witness ==
  /\ ReturnedStatement
  /\ Len(last.res.val.body) = 3
  /\ IsBareDash(last.marks[2])
  /\ last.marks[2] < Len(input)
  /\ ~IsBareDash(last.marks[1])
  /\ ~IsBareDash(last.marks[3])
  /\ last.res.val.body[2] = EmptyItem

-----------------------------------------------------------------------------
(* C24.  Every Variable, Identifier and Literal the low-level lexer        *)
(* returns has a text that is not empty; a '@' that no alphanumeric        *)
(* character follows gives no Variable but a failure, which is             *)
(* UnexpectedEndOfInput when the '@' is the last character.                *)

\* the result r is no token of one of the kinds, or one with a text
HasText(r, kinds) == (r.ok /\ r.val.k \in kinds) => r.val.v # <<>>

\* every result so far is no token of one of the kinds, or one with a text
AllHaveText(kinds) ==
  /\ HasText(lexLast.res, kinds)
  /\ \A i \in 1..Len(tokens) : HasText(tokens[i], kinds)

\* the last call read the stream and found, after the whitespace, a '@'
\* that no alphanumeric character follows
AtLoneAt ==
  /\ Scans
  /\ Ahead # <<>>
  /\ Head(Ahead) = "@"
  /\ Len(Ahead) > 1 => ~IsAlphanumeric(Ahead[2])

C24_TokensHaveText ==
  /\ AllHaveText({"Variable", "Identifier", "Literal"})
  /\ AtLoneAt =>
       /\ ~lexLast.res.ok
       /\ Len(Ahead) = 1 => lexLast.res = LowFailure("UnexpectedEndOfInput", "")

\* an Identifier and a Literal have a text, and a '@' that is the last
\* character fails with UnexpectedEndOfInput
WordsHaveText ==
  /\ AllHaveText({"Identifier", "Literal"})
  /\ (AtLoneAt /\ Len(Ahead) = 1)
       => lexLast.res = LowFailure("UnexpectedEndOfInput", "")

\* a '@' with a character after it that is not alphanumeric gives the
\* Variable of the empty text and leaves that character in the stream
LoneAtIsEmptyVariable ==
  (AtLoneAt /\ Len(Ahead) > 1)
    => /\ Gave(Variable(<<>>))
       /\ lexLast.to = BlankEnd(lexLast.from) + 1
====
